---- MODULE Spec2Model ----
(***************************************************************************)
(* Model of src/backend/booking/src/cancel-booking/cancel.py: the Lambda   *)
(* step that cancels a booking by one conditional update of the booking    *)
(* table, and reports the outcome to the Step Functions state machine.     *)
(*                                                                         *)
(* Environment.  The booking table is DynamoDB: update_item either applies *)
(* the update, or answers with a ClientError (the condition failed, the    *)
(* key is not a valid key value, or a transient service error such as      *)
(* throttling).  The tracer is the tracing sink: put_annotation and        *)
(* put_metadata return to the caller; what they were handed may be         *)
(* recorded or lost.                                                       *)
(***************************************************************************)
EXTENDS Integers, Sequences, FiniteSets, TLC

VARIABLES
    table,          \* the booking table: booking id -> item
    before,         \* the table as it was when the last invocation started
    last,           \* the last invocation: its input, outcome and call trace
    cancelledOnce,  \* ids for which an invocation has already succeeded
    invocations     \* number of invocations so far

vars == <<table, before, last, cancelledOnce, invocations>>

\* Number of invocations explored in one run of the process.
MaxInvocations == 3

----------------------------------------------------------------------------
\* Values

\* Python's None where a string is expected (a null bookingId, message=None).
None == "<None>"
\* Python's None where an object is expected (details=None).
NoneObj == [type |-> "NoneType"]
\* Python's {} (the default details payload).
EmptyDict == [type |-> "dict"]
\* No exception.
NoError == [type |-> "NoError"]

\* Ids under which the table can hold an item (non-empty strings).
RecordIds == {"b1", "b2"}
\* Values an event can carry under "bookingId": ids with or without a record,
\* the empty string and null.
BookingIdValues == RecordIds \cup {"ghost", "", None}
\* Key values DynamoDB accepts for the string key "id".
ValidKeys == {k \in BookingIdValues : k # "" /\ k # None}

Statuses == {"PENDING", "CONFIRMED", "CANCELLED"}
Customers == {"c1", "c2"}

Item(i, s, c) == [id |-> i, status |-> s, customer |-> c]

\* Every booking table over RecordIds: each item is stored under its own id.
Tables ==
    UNION { { [i \in S |-> Item(i, f[i].status, f[i].customer)] :
                f \in [S -> [status : Statuses, customer : Customers]] } :
            S \in SUBSET RecordIds }

\* Events of the state machine: any subset of the fields, bookingId of any value.
EventFields == {"bookingId", "chargeId"}
Events ==
    UNION { { e \in [D -> BookingIdValues \cup {"ch1"}] :
                /\ ("bookingId" \in D => e["bookingId"] \in BookingIdValues)
                /\ ("chargeId" \in D => e["chargeId"] = "ch1") } :
            D \in SUBSET EventFields }
NoEvent == [f \in {} |-> None]

\* Outcomes of the service for one update_item request, besides its own
\* evaluation of the request: "none", or a transient service error.
StoreFaults == {"none", "ProvisionedThroughputExceededException"}

\* For each of the (at most two) tracer calls of an invocation: recorded or lost.
SinkOutcomes == [1..2 -> BOOLEAN]

----------------------------------------------------------------------------
\* Exceptions

ClientError(code) == [type |-> "ClientError", code |-> code]

ValueError(message) == [type |-> "ValueError", message |-> message]

\* A constructor that stores its arguments as given, without the defaults.
BookingCancellationExceptionNoDefaults(message, status_code, details) ==
    [type |-> "BookingCancellationException", message |-> message,
     status_code |-> status_code, details |-> details]

\* BookingCancellationException.__init__: each argument or its default.
\* status_code 0 stands for both None and 0 (both falsy).
BookingCancellationException(message, status_code, details) ==
    [type        |-> "BookingCancellationException",
     message     |-> IF message \in {None, ""}
                     THEN "Booking cancellation failed" ELSE message,
     status_code |-> IF status_code = 0 THEN 500 ELSE status_code,
     details     |-> IF details \in {NoneObj, EmptyDict} THEN EmptyDict ELSE details]

----------------------------------------------------------------------------
\* The booking table (DynamoDB), as cancel_booking uses it

\* ConditionExpression status <> CANCELLED as well: cancel only what is not cancelled.
ConditionExpressionNotCancelled(item, idVal) ==
    item.id = idVal /\ item.status # "CANCELLED"

\* ConditionExpression="id = :idVal", evaluated on the item stored under Key.
ConditionExpression(item, idVal) == item.id = idVal

\* No ConditionExpression at all: the update is unconditional.
ConditionHoldsOmitted(tbl, Key, idVal) == TRUE

\* The condition of the request holds: an item is stored under Key and
\* satisfies the expression (an attribute of a missing item equals nothing).
ConditionHolds(tbl, Key, idVal) ==
    Key \in DOMAIN tbl /\ ConditionExpression(tbl[Key], idVal)

\* UpdateExpression that writes the status it read back.
UpdateExpressionKeepStatus(item, cancelled) == item

\* UpdateExpression that rewrites the item from the request alone.
UpdateExpressionReplaceItem(item, cancelled) ==
    [a \in DOMAIN item |->
        IF a = "status" THEN cancelled ELSE IF a = "id" THEN item.id ELSE ""]

\* UpdateExpression="SET #STATUS = :cancelled" with #STATUS = "status".
UpdateExpression(item, cancelled) ==
    [a \in DOMAIN item \cup {"status"} |-> IF a = "status" THEN cancelled ELSE item[a]]

\* update_item applies the expression to the item under Key; when there is
\* none it starts from the item that holds the key alone.
ApplyUpdate(tbl, Key, cancelled) ==
    LET old == IF Key \in DOMAIN tbl THEN tbl[Key] ELSE [id |-> Key]
    IN  [k \in DOMAIN tbl \cup {Key} |->
            IF k = Key THEN UpdateExpression(old, cancelled) ELSE tbl[k]]

\* table.update_item(Key, ConditionExpression, UpdateExpression, ...,
\* ReturnValues="UPDATED_NEW"): the table afterwards, and the response or the
\* ClientError raised.
update_item(tbl, Key, idVal, cancelled, fault) ==
    IF fault # "none"
    THEN [table |-> tbl, ok |-> FALSE, error |-> ClientError(fault),
          Attributes |-> EmptyDict]
    ELSE IF Key \notin ValidKeys
    THEN [table |-> tbl, ok |-> FALSE, error |-> ClientError("ValidationException"),
          Attributes |-> EmptyDict]
    ELSE IF ~ConditionHolds(tbl, Key, idVal)
    THEN [table |-> tbl, ok |-> FALSE,
          error |-> ClientError("ConditionalCheckFailedException"),
          Attributes |-> EmptyDict]
    ELSE LET new == ApplyUpdate(tbl, Key, cancelled)
         IN  [table |-> new, ok |-> TRUE, error |-> NoError,
              Attributes |-> [type |-> "dict", status |-> new[Key].status]]

----------------------------------------------------------------------------
\* Calls recorded in the trace of an invocation

StoreCall(key, ok) == [call |-> "update_item", key |-> key, ok |-> ok]

\* tracer.put_annotation(key, value): returns; recorded or lost.
put_annotation(key, value, recorded) ==
    [call |-> "put_annotation", key |-> key, value |-> value, recorded |-> recorded]

\* tracer.put_metadata(key, value): returns; recorded or lost.
put_metadata(key, value, recorded) ==
    [call |-> "put_metadata", key |-> key, value |-> value, recorded |-> recorded]

\* What a function hands back: a return value or a raised exception, the
\* table afterwards and the calls it made, in order.
Returned(tbl, value, trace) ==
    [table |-> tbl, outcome |-> "returned", value |-> value, error |-> NoError,
     trace |-> trace]
Raised(tbl, error, trace) ==
    [table |-> tbl, outcome |-> "raised", value |-> FALSE, error |-> error,
     trace |-> trace]

----------------------------------------------------------------------------
\* cancel_booking

\* cancel_booking that tries the update once more when the table refuses it.
cancel_booking_retry(tbl, booking_id, fault, recorded) ==
    LET first == update_item(tbl, booking_id, booking_id, "CANCELLED", fault)
        ret == IF first.ok THEN first
               ELSE update_item(first.table, booking_id, booking_id, "CANCELLED", "none")
        calls == IF first.ok THEN <<StoreCall(booking_id, TRUE)>>
                 ELSE <<StoreCall(booking_id, FALSE), StoreCall(booking_id, ret.ok)>>
    IN  IF ret.ok
        THEN Returned(ret.table, TRUE,
                      calls \o <<put_metadata(booking_id, ret.Attributes, recorded[1])>>)
        ELSE Raised(ret.table, BookingCancellationException(None, 0, ret.error), calls)

\* cancel_booking(booking_id): one update_item; its response goes to the
\* tracer and True is returned; a ClientError is raised again as a
\* BookingCancellationException with the ClientError as details.
cancel_booking(tbl, booking_id, fault, recorded) ==
    LET ret == update_item(tbl, booking_id, booking_id, "CANCELLED", fault)
        call == StoreCall(booking_id, ret.ok)
    IN  IF ret.ok
        THEN Returned(ret.table, TRUE,
                      <<call, put_metadata(booking_id, ret.Attributes, recorded[1])>>)
        ELSE IF ret.error.type = "ClientError"
        THEN Raised(ret.table, BookingCancellationException(None, 0, ret.error), <<call>>)
        ELSE Raised(ret.table, ret.error, <<call>>)

----------------------------------------------------------------------------
\* lambda_handler

\* A check of the field the docstring names instead of bookingId.
HasBookingIdWrongField(event) == "chargeId" \in DOMAIN event

\* A truthiness check of the field instead of a presence check.
HasBookingIdTruthy(event) ==
    "bookingId" \in DOMAIN event /\ event["bookingId"] \notin {"", None}

\* "bookingId" in event
HasBookingId(event) == "bookingId" \in DOMAIN event

\* The success path that marks the invocation with the status of the other path.
HandlerSuccessWrongAnnotation(inner, recorded) ==
    Returned(inner.table, inner.value,
             inner.trace \o <<put_annotation("BookingStatus", "ERROR", recorded[2])>>)

\* After cancel_booking returned: annotate BookingStatus CANCELLED, return ret.
HandlerSuccess(inner, recorded) ==
    Returned(inner.table, inner.value,
             inner.trace \o <<put_annotation("BookingStatus", "CANCELLED", recorded[2])>>)

\* The except path that gives up with the tracer's failure when the
\* annotation was not recorded.
HandlerFailureSinkFatal(inner, recorded) ==
    LET trace == inner.trace \o <<put_annotation("BookingStatus", "ERROR", recorded[1])>>
    IN  IF ~recorded[1]
        THEN Raised(inner.table, [type |-> "TracingError"], trace)
        ELSE Raised(inner.table, BookingCancellationException(None, 0, inner.error),
                    trace \o <<put_metadata("cancel_booking_error", inner.error, recorded[2])>>)

\* except BookingCancellationException as err: annotate BookingStatus ERROR,
\* attach err as metadata, raise BookingCancellationException(details=err).
HandlerFailure(inner, recorded) ==
    Raised(inner.table, BookingCancellationException(None, 0, inner.error),
           inner.trace \o
           <<put_annotation("BookingStatus", "ERROR", recorded[1]),
             put_metadata("cancel_booking_error", inner.error, recorded[2])>>)

\* lambda_handler(event, context)
lambda_handler(tbl, event, fault, recorded) ==
    IF ~HasBookingId(event)
    THEN Raised(tbl, ValueError("Invalid booking ID"), <<>>)
    ELSE IF "bookingId" \notin DOMAIN event
    THEN Raised(tbl, [type |-> "KeyError"], <<>>)        \* event["bookingId"]
    ELSE LET booking_id == event["bookingId"]
             inner == cancel_booking(tbl, booking_id, fault, recorded)
         IN  IF inner.outcome = "returned"
             THEN HandlerSuccess(inner, recorded)
             ELSE IF inner.error.type = "BookingCancellationException"
             THEN HandlerFailure(inner, recorded)
             ELSE inner

----------------------------------------------------------------------------
\* The process: invocations of the handler, and of cancel_booking on its own

Invocation(op, event, booking_id, fault, recorded, r) ==
    [op |-> op, event |-> event, booking_id |-> booking_id, fault |-> fault,
     recorded |-> recorded, repeat |-> booking_id \in cancelledOnce,
     outcome |-> r.outcome, value |-> r.value, error |-> r.error, trace |-> r.trace]

Finish(op, event, booking_id, fault, recorded, r) ==
    /\ table' = r.table
    /\ before' = table
    /\ last' = Invocation(op, event, booking_id, fault, recorded, r)
    /\ cancelledOnce' = IF r.outcome = "returned" /\ r.value = TRUE
                        THEN cancelledOnce \cup {booking_id} ELSE cancelledOnce
    /\ invocations' = invocations + 1

Init ==
    /\ table \in Tables
    /\ before = table
    /\ last = [op |-> "none", event |-> NoEvent, booking_id |-> None, fault |-> "none",
               recorded |-> [i \in 1..2 |-> TRUE], repeat |-> FALSE,
               outcome |-> "none", value |-> FALSE, error |-> NoError, trace |-> <<>>]
    /\ cancelledOnce = {}
    /\ invocations = 0

\* cancel_booking called with an id.
Cancel ==
    /\ invocations < MaxInvocations
    /\ \E booking_id \in BookingIdValues, fault \in StoreFaults, recorded \in SinkOutcomes :
         Finish("cancel", NoEvent, booking_id, fault, recorded,
                cancel_booking(table, booking_id, fault, recorded))

\* lambda_handler invoked with an event.
Handle ==
    /\ invocations < MaxInvocations
    /\ \E event \in Events, fault \in StoreFaults, recorded \in SinkOutcomes :
         Finish("handle", event,
                IF "bookingId" \in DOMAIN event THEN event["bookingId"] ELSE None,
                fault, recorded, lambda_handler(table, event, fault, recorded))

Next == Cancel \/ Handle

Spec == Init /\ [][Next]_vars

----------------------------------------------------------------------------
\* Reading the last invocation

IsStoreCall(c) == c.call = "update_item"
StoreCalls == SelectSeq(last.trace, IsStoreCall)

\* The invocation emitted the annotation BookingStatus = value.
Annotated(value) ==
    \E i \in 1..Len(last.trace) :
        /\ last.trace[i].call = "put_annotation"
        /\ last.trace[i].key = "BookingStatus"
        /\ last.trace[i].value = value

\* The table refused the update of the last invocation.
StoreRejected == Len(StoreCalls) >= 1 /\ ~StoreCalls[1].ok

ReturnedTrue == last.outcome = "returned" /\ last.value = TRUE
RaisedKind(kind) == last.outcome = "raised" /\ last.error.type = kind
CancellationFailed == RaisedKind("BookingCancellationException")
InvalidInput == RaisedKind("ValueError")

\* The store error an exception carries: its details, or the details of the
\* BookingCancellationException it wraps.
StoreCause(e) ==
    IF e.details.type = "BookingCancellationException" THEN e.details.details
    ELSE e.details

\* The lambda_handler invocation passed the presence check.
Validated == last.op = "handle" /\ "bookingId" \in DOMAIN last.event

----------------------------------------------------------------------------
\* C1 (as stated): for every id with a record in the table, cancel(id)
\* returns true and afterwards the record's status is CANCELLED.
C1_AsStated ==
    (last.op = "cancel" /\ last.booking_id \in DOMAIN before)
        => /\ ReturnedTrue
           /\ last.booking_id \in DOMAIN table
           /\ table[last.booking_id].status = "CANCELLED"

\* C1 (amended): for every id with a record in the table, when the table does
\* not answer the update with a transient error, cancel(id) returns true and
\* afterwards the record's status is CANCELLED.
C1_CancelExisting ==
    (last.op = "cancel" /\ last.booking_id \in DOMAIN before /\ last.fault = "none")
        => /\ ReturnedTrue
           /\ last.booking_id \in DOMAIN table
           /\ table[last.booking_id].status = "CANCELLED"

C1_Witness ==
    /\ last.op = "cancel" /\ last.fault = "none"
    /\ last.booking_id \in DOMAIN before
    /\ before[last.booking_id].status = "CONFIRMED"
    /\ ReturnedTrue
    /\ table[last.booking_id].status = "CANCELLED"

\* C2: for every id with no record in the table, cancel(id) fails with
\* BookingCancellationException and the set of record ids is what it was.
C2_CancelMissing ==
    (last.op = "cancel" /\ last.booking_id \notin DOMAIN before)
        => /\ CancellationFailed
           /\ DOMAIN table = DOMAIN before

C2_Witness ==
    /\ last.op = "cancel" /\ last.booking_id = "b1" /\ "b1" \notin DOMAIN before
    /\ last.fault = "none"
    /\ CancellationFailed
    /\ last.error.details = ClientError("ConditionalCheckFailedException")
    /\ "b1" \notin DOMAIN table

\* C3: an event without bookingId makes lambda_handler fail with ValueError,
\* a kind other than BookingCancellationException, with no call of the table
\* (no call at all) and the table untouched.
C3_MissingBookingId ==
    (last.op = "handle" /\ "bookingId" \notin DOMAIN last.event)
        => /\ InvalidInput
           /\ ~CancellationFailed
           /\ Len(StoreCalls) = 0
           /\ last.trace = <<>>
           /\ table = before

C3_Witness ==
    /\ last.op = "handle" /\ DOMAIN last.event = {"chargeId"}
    /\ InvalidInput /\ last.error.message = "Invalid booking ID"
    /\ table = before /\ DOMAIN table # {}

\* C4 (as stated): once an invocation for id has succeeded, any further
\* cancel(id) returns true and leaves the record's status CANCELLED.
C4_AsStated ==
    (last.op = "cancel" /\ last.repeat)
        => /\ ReturnedTrue
           /\ last.booking_id \in DOMAIN table
           /\ table[last.booking_id].status = "CANCELLED"

\* C4 (amended): once an invocation for id has succeeded, any further
\* cancel(id) leaves the record's status CANCELLED, and returns true whenever
\* the table does not answer the update with a transient error: the prior
\* status never makes it fail.
C4_Idempotent ==
    (last.op = "cancel" /\ last.repeat)
        => /\ last.booking_id \in DOMAIN table
           /\ table[last.booking_id].status = "CANCELLED"
           /\ (last.fault = "none" => ReturnedTrue)

C4_Witness ==
    /\ last.op = "cancel" /\ last.repeat /\ last.fault = "none"
    /\ before[last.booking_id].status = "CANCELLED"
    /\ ReturnedTrue
    /\ table[last.booking_id].status = "CANCELLED"

\* The ClientError the table answers with in the last invocation, from the
\* request alone: the transient error, or the refusal of the key or condition.
ExpectedStoreError ==
    ClientError(IF last.fault # "none" THEN last.fault
                ELSE IF last.booking_id \notin ValidKeys THEN "ValidationException"
                ELSE "ConditionalCheckFailedException")

\* C5: whenever the table refuses the update, by the condition or by a
\* transient error, cancel_booking and lambda_handler both fail with a
\* BookingCancellationException of message "Booking cancellation failed",
\* status code 500 and details that hold the ClientError; no other kind of
\* error leaves the invocation.
C5_StoreFailureKind ==
    StoreRejected
        => /\ CancellationFailed
           /\ last.error.message = "Booking cancellation failed"
           /\ last.error.status_code = 500
           /\ last.error.details # EmptyDict
           /\ StoreCause(last.error) = ExpectedStoreError
           /\ (last.op = "cancel" => last.error.details.type = "ClientError")
           /\ (last.op = "handle"
                 => last.error.details.type = "BookingCancellationException")

C5_Witness ==
    /\ last.op = "handle" /\ StoreRejected
    /\ last.fault = "ProvisionedThroughputExceededException"
    /\ last.booking_id \in DOMAIN before
    /\ CancellationFailed
    /\ StoreCause(last.error) = ClientError("ProvisionedThroughputExceededException")

\* C6: an invocation of lambda_handler that passes the presence check, and
\* any call of cancel_booking, calls update_item exactly once, whatever the
\* outcome.
C6_OneStoreCall ==
    (Validated \/ last.op = "cancel") => Len(StoreCalls) = 1

C6_Witness ==
    /\ Validated /\ StoreRejected /\ CancellationFailed
    /\ Len(StoreCalls) = 1
    /\ last.booking_id \in DOMAIN before

\* The tracer lost the ERROR annotation or the metadata of the last invocation.
ErrorReportLost ==
    \E i \in 1..Len(last.trace) :
        /\ last.trace[i].call \in {"put_annotation", "put_metadata"}
        /\ ~last.trace[i].recorded

OtherAttributes(item) == [a \in DOMAIN item \ {"status"} |-> item[a]]

\* C8: an invocation creates and deletes no record, leaves every record with
\* another id as it was, changes nothing but the status of the record with
\* the given id, and changes nothing at all when it fails.
C8_Frame ==
    last.op # "none"
        => /\ DOMAIN table = DOMAIN before
           /\ \A k \in DOMAIN before :
                /\ (k # last.booking_id => table[k] = before[k])
                /\ OtherAttributes(table[k]) = OtherAttributes(before[k])
           /\ (last.outcome = "raised" => table = before)

C8_Witness ==
    /\ last.op = "handle" /\ ReturnedTrue
    /\ last.booking_id = "b1" /\ DOMAIN before = {"b1", "b2"}
    /\ before["b1"].status = "PENDING" /\ table["b1"].status = "CANCELLED"
    /\ table["b1"].customer = before["b1"].customer
    /\ table["b2"] = before["b2"] /\ before["b2"].status = "CONFIRMED"

\* C9: lambda_handler annotates BookingStatus CANCELLED exactly when the
\* update succeeded and it returns true, as its last call after the update;
\* it annotates ERROR exactly when it fails with BookingCancellationException;
\* never both; neither when it fails with ValueError.
C9_AnnotationMatchesOutcome ==
    last.op = "handle"
        => /\ Annotated("CANCELLED")
                <=> (Len(StoreCalls) = 1 /\ StoreCalls[1].ok /\ ReturnedTrue)
           /\ Annotated("CANCELLED")
                => /\ last.trace[1].call = "update_item"
                   /\ last.trace[Len(last.trace)] =
                        put_annotation("BookingStatus", "CANCELLED", last.recorded[2])
           /\ Annotated("ERROR") <=> CancellationFailed
           /\ ~(Annotated("CANCELLED") /\ Annotated("ERROR"))
           /\ InvalidInput => (~Annotated("CANCELLED") /\ ~Annotated("ERROR"))

C9_Witness ==
    /\ last.op = "handle" /\ ReturnedTrue
    /\ Annotated("CANCELLED") /\ ~Annotated("ERROR")
    /\ Len(last.trace) = 3 /\ last.trace[1].ok

\* C10: a bookingId that is present but empty or null is not refused as
\* invalid input: it goes unchanged to exactly one update_item, and the
\* invocation ends with true or with BookingCancellationException.
C10_PresenceOnly ==
    (Validated /\ last.event["bookingId"] \in {"", None})
        => /\ ~InvalidInput
           /\ Len(StoreCalls) = 1
           /\ StoreCalls[1].key = last.event["bookingId"]
           /\ (ReturnedTrue \/ CancellationFailed)

C10_Witness ==
    /\ Validated /\ last.event["bookingId"] = ""
    /\ last.fault = "none"
    /\ Len(StoreCalls) = 1 /\ StoreCalls[1].key = ""
    /\ CancellationFailed

====
